---- MODULE Spec2Model ----
(***************************************************************************)
(* Model of the RAG chatbot's retrieval core (TF-IDF indexer and cosine    *)
(* ranker) together with the document store that feeds it.                 *)
(*                                                                         *)
(* JavaScript strings are sequences of one-character strings, so that      *)
(* lowercasing, the two regular-expression replacements, trim and split    *)
(* are computed character by character.  JavaScript Numbers are fixed      *)
(* point integers in units of 1/Scale, rounded to nearest after every      *)
(* operation that rounds in IEEE arithmetic; the non-numeric values that   *)
(* the object lookups of the code can produce (an inherited property, a    *)
(* concatenated string, NaN) are kept as separate kinds of value.          *)
(***************************************************************************)
EXTENDS Integers, Sequences, FiniteSets, TLC

(***************************************************************************)
(* Bounds of the model.                                                    *)
(***************************************************************************)
MaxDocs == 3
MaxTopK == 3
MaxTextLen == 7
MaxRequests == 3
MaxSends == 2

(***************************************************************************)
(* JavaScript values.                                                      *)
(***************************************************************************)
Str(s) == [k |-> "string", s |-> s]
Null == [k |-> "null", s |-> <<>>]

\* !text : null, undefined and the empty string are falsy
Falsy(text) == text.k = "null" \/ text.s = <<>>

\* text || ""
OrEmpty(text) == IF Falsy(text) THEN Str(<<>>) ELSE text

(***************************************************************************)
(* Characters: String.prototype.toLowerCase and the classes \w and \s.     *)
(***************************************************************************)
UpperChars ==
    <<"A", "B", "C", "D", "E", "F", "G", "H", "I", "J", "K", "L", "M",
      "N", "O", "P", "Q", "R", "S", "T", "U", "V", "W", "X", "Y", "Z">>
LowerChars ==
    <<"a", "b", "c", "d", "e", "f", "g", "h", "i", "j", "k", "l", "m",
      "n", "o", "p", "q", "r", "s", "t", "u", "v", "w", "x", "y", "z">>
DigitChars == {"0", "1", "2", "3", "4", "5", "6", "7", "8", "9"}
Range(f) == {f[i] : i \in DOMAIN f}

IsWordChar(c) == c \in Range(UpperChars) \cup Range(LowerChars) \cup DigitChars \cup {"_"}
IsSpaceChar(c) == c \in {" ", "\t", "\n", "\r"}

LowerChar(c) ==
    IF c \in Range(UpperChars)
    THEN LowerChars[CHOOSE i \in DOMAIN UpperChars : UpperChars[i] = c]
    ELSE c

toLowerCase(s) == [i \in 1..Len(s) |-> LowerChar(s[i])]

\* .replace(/[^\w\s]/g, " ")
replaceNonWord(s) ==
    [i \in 1..Len(s) |-> IF IsWordChar(s[i]) \/ IsSpaceChar(s[i]) THEN s[i] ELSE " "]

\* .replace(/\s+/g, " ") : every maximal run of whitespace becomes one space
\* (a whitespace character followed by another one is dropped, the last one
\* of a run becomes the space)
collapseSpaces(s) ==
    LET withNext == [i \in 1..Len(s) |->
                        <<s[i], i < Len(s) /\ IsSpaceChar(s[i + 1])>>]
        Kept(p) == ~(IsSpaceChar(p[1]) /\ p[2])
        kept == SelectSeq(withNext, Kept)
    IN  [i \in 1..Len(kept) |-> IF IsSpaceChar(kept[i][1]) THEN " " ELSE kept[i][1]]

\* .trim()
trim(s) ==
    LET solid == {i \in 1..Len(s) : ~IsSpaceChar(s[i])}
    IN  IF solid = {} THEN <<>>
        ELSE SubSeq(s, CHOOSE i \in solid : \A j \in solid : i <= j,
                       CHOOSE i \in solid : \A j \in solid : i >= j)

preprocessText(s) == trim(collapseSpaces(replaceNonWord(toLowerCase(s))))

\* .split(" ") : the pieces between single spaces; "" splits into one empty piece
split(s) ==
    LET spaces == {i \in 1..Len(s) : s[i] = " "}
        \* position of the n-th space, position 0 before the first piece and
        \* Len(s) + 1 after the last one
        At(n) == IF n = 0 THEN 0
                 ELSE IF n > Cardinality(spaces) THEN Len(s) + 1
                 ELSE CHOOSE i \in spaces : Cardinality({j \in spaces : j <= i}) = n
    IN  [n \in 1..(Cardinality(spaces) + 1) |-> SubSeq(s, At(n - 1) + 1, At(n) - 1)]

\* a filter that keeps the words of two characters too
LongWordFrom2(word) == Len(word) >= 2

LongWord(word) == Len(word) > 2

tokenize(text) ==
    IF Falsy(text) THEN <<>>
    ELSE SelectSeq(split(preprocessText(text.s)), LongWord)

(***************************************************************************)
(* Texts used as document contents and queries.                            *)
(***************************************************************************)
\* "ML is a subset of AI"
TxtSubset ==
    <<"M", "L", " ", "i", "s", " ", "a", " ", "s", "u", "b", "s", "e", "t", " ", "o", "f",
       " ", "A", "I">>

\* "Cats are mammals"
TxtCats ==
    <<"C", "a", "t", "s", " ", "a", "r", "e", " ", "m", "a", "m", "m", "a", "l", "s">>

\* "Deep learning is part of machine learning"
TxtDeep ==
    <<"D", "e", "e", "p", " ", "l", "e", "a", "r", "n", "i", "n", "g", " ", "i", "s", " ",
       "p", "a", "r", "t", " ", "o", "f", " ", "m", "a", "c", "h", "i", "n", "e", " ", "l",
       "e", "a", "r", "n", "i", "n", "g">>

\* "Learning, learning."
TxtLearn ==
    <<"L", "e", "a", "r", "n", "i", "n", "g", ",", " ", "l", "e", "a", "r", "n", "i", "n",
       "g", ".">>

\* "class constructor"
TxtCtor ==
    <<"c", "l", "a", "s", "s", " ", "c", "o", "n", "s", "t", "r", "u", "c", "t", "o", "r">>

\* "Machine Learning is a subset of artificial intelligence that enables systems to learn and improve from experience without being explicitly programmed."
TxtDefault ==
    <<"M", "a", "c", "h", "i", "n", "e", " ", "L", "e", "a", "r", "n", "i", "n", "g", " ",
       "i", "s", " ", "a", " ", "s", "u", "b", "s", "e", "t", " ", "o", "f", " ", "a", "r",
       "t", "i", "f", "i", "c", "i", "a", "l", " ", "i", "n", "t", "e", "l", "l", "i", "g",
       "e", "n", "c", "e", " ", "t", "h", "a", "t", " ", "e", "n", "a", "b", "l", "e", "s",
       " ", "s", "y", "s", "t", "e", "m", "s", " ", "t", "o", " ", "l", "e", "a", "r", "n",
       " ", "a", "n", "d", " ", "i", "m", "p", "r", "o", "v", "e", " ", "f", "r", "o", "m",
       " ", "e", "x", "p", "e", "r", "i", "e", "n", "c", "e", " ", "w", "i", "t", "h", "o",
       "u", "t", " ", "b", "e", "i", "n", "g", " ", "e", "x", "p", "l", "i", "c", "i", "t",
       "l", "y", " ", "p", "r", "o", "g", "r", "a", "m", "m", "e", "d", ".">>

\* "machine learning"
QryML ==
    <<"m", "a", "c", "h", "i", "n", "e", " ", "l", "e", "a", "r", "n", "i", "n", "g">>

\* " \t "
QryBlank ==
    <<" ", "\t", " ">>

\* "is an to"
QryShort ==
    <<"i", "s", " ", "a", "n", " ", "t", "o">>

\* "Learning"
QryLearn ==
    <<"L", "e", "a", "r", "n", "i", "n", "g">>

\* "cats subset learning"
QryAll ==
    <<"c", "a", "t", "s", " ", "s", "u", "b", "s", "e", "t", " ", "l", "e", "a", "r", "n",
       "i", "n", "g">>

(***************************************************************************)
(* Numbers.  A Number with value v is the integer round(v * Scale).        *)
(***************************************************************************)
Scale == 10 * 10 * 10

Num(n) == [k |-> "number", n |-> n]
NaN == [k |-> "NaN", n |-> 0]
Infinity == [k |-> "Infinity", n |-> 0]
Undefined == [k |-> "undefined", n |-> 0]
\* the string that + builds from a non-number operand
Concat == [k |-> "string", n |-> 0]
\* Object.prototype.constructor and Object.prototype itself
ObjectFn == [k |-> "function", n |-> 0]
ObjectProto == [k |-> "object", n |-> 0]

IsNum(v) == v.k = "number"

\* nearest integer to a / b, for a >= 0 and b > 0
RoundDiv(a, b) == (2 * a + b) \div (2 * b)

\* x || 0
OrZero(v) ==
    IF v.k \in {"undefined", "NaN"} \/ (IsNum(v) /\ v.n = 0) THEN Num(0) ELSE v

\* x || 1
OrOne(v) ==
    IF v.k \in {"undefined", "NaN"} \/ (IsNum(v) /\ v.n = 0) THEN Num(Scale) ELSE v

\* x + 1 : addition on a number, concatenation on a function, object or string
PlusOne(v) ==
    IF IsNum(v) THEN Num(v.n + Scale)
    ELSE IF v.k = "NaN" \/ v.k = "undefined" THEN NaN
    ELSE IF v.k = "Infinity" THEN Infinity
    ELSE Concat

\* a / b
Div(a, b) ==
    IF ~(IsNum(a) /\ IsNum(b)) THEN NaN
    ELSE IF b.n = 0 THEN (IF a.n = 0 THEN NaN ELSE Infinity)
    ELSE Num(RoundDiv(a.n * Scale, b.n))

\* a * b
Mul(a, b) ==
    IF ~(IsNum(a) /\ IsNum(b)) THEN NaN
    ELSE Num(RoundDiv(a.n * b.n, Scale))

\* Math.max(1, x)
MaxOne(v) ==
    IF ~IsNum(v) THEN NaN ELSE IF v.n < Scale THEN Num(Scale) ELSE v

\* ln 2 in units of 1/Scale
Ln2 == (693 * Scale) \div 1000

\* ln x for Scale <= x < 2 * Scale, by ln x = 2 atanh((x - 1) / (x + 1))
LnSeries(x) ==
    LET y  == RoundDiv((x - Scale) * Scale, x + Scale)
        y2 == RoundDiv(y * y, Scale)
        y3 == RoundDiv(y * y2, Scale)
        y5 == RoundDiv(y3 * y2, Scale)
        y7 == RoundDiv(y5 * y2, Scale)
    IN  RoundDiv(2 * (105 * y + 35 * y3 + 21 * y5 + 15 * y7), 105)

\* ln x for x >= Scale : halve the argument until it is below 2
RECURSIVE LnFix(_)
LnFix(x) ==
    IF x >= 2 * Scale THEN Ln2 + LnFix(RoundDiv(x, 2)) ELSE LnSeries(x)

\* Math.log(x)
mathLog(v) ==
    IF ~IsNum(v) \/ v.n <= 0 THEN NaN
    ELSE IF v.n >= Scale THEN Num(LnFix(v.n))
    ELSE Num(0 - LnFix(RoundDiv(Scale * Scale, v.n)))

\* Math.sqrt of a product of two Numbers, which is held unrounded in units
\* of 1/Scale^2 : the nearest integer to the square root is in units of 1/Scale
RECURSIVE SqrtBetween(_, _, _)
SqrtBetween(n, lo, hi) ==
    IF lo >= hi THEN lo
    ELSE LET mid == (lo + hi + 1) \div 2
         IN  IF mid * mid <= n THEN SqrtBetween(n, mid, hi)
             ELSE SqrtBetween(n, lo, mid - 1)

mathSqrt(n) ==
    LET r == SqrtBetween(n, 0, IF n < 46340 THEN n ELSE 46340)
    IN  IF n - r * r > r THEN r + 1 ELSE r

\* nearest integer to num * Scale / den, digit by digit so that no
\* intermediate product leaves the integer range
RECURSIVE DivDigits(_, _, _)
DivDigits(r, den, unit) ==
    IF unit = 1 THEN (IF 2 * r >= den THEN 1 ELSE 0)
    ELSE ((r * 10) \div den) * (unit \div 10)
         + DivDigits((r * 10) % den, den, unit \div 10)

DivWide(num, den) == (num \div den) * Scale + DivDigits(num % den, den, Scale)

(***************************************************************************)
(* Plain objects used as maps from term to value.  A lookup of a key the   *)
(* object does not own falls through to Object.prototype.                  *)
(***************************************************************************)
KeyConstructor == <<"c", "o", "n", "s", "t", "r", "u", "c", "t", "o", "r">>
KeyProto == <<"_", "_", "p", "r", "o", "t", "o", "_", "_">>

EmptyObject == [t \in {} |-> Undefined]

\* obj[key]
Get(obj, key) ==
    IF key \in DOMAIN obj THEN obj[key]
    ELSE IF key = KeyConstructor THEN ObjectFn
    ELSE IF key = KeyProto THEN ObjectProto
    ELSE Undefined

\* obj[key] = val, for a primitive val : assigning a primitive to __proto__
\* is ignored
Put(obj, key, val) ==
    IF key = KeyProto THEN obj
    ELSE [t \in DOMAIN obj \cup {key} |-> IF t = key THEN val ELSE obj[t]]

\* obj[term] = (obj[term] || 0) + 1
Increment(obj, term) == Put(obj, term, PlusOne(OrZero(Get(obj, term))))

\* terms.forEach((term) => { obj[term] = (obj[term] || 0) + 1 }) over a sequence
RECURSIVE CountTerms(_, _)
CountTerms(obj, terms) ==
    IF terms = <<>> THEN obj
    ELSE CountTerms(Increment(obj, Head(terms)), Tail(terms))

\* uniqueTerms.forEach(...) over a Set : every member is incremented once
RECURSIVE CountSet(_, _)
CountSet(obj, termSet) ==
    IF termSet = {} THEN obj
    ELSE LET t == CHOOSE x \in termSet : TRUE
         IN  CountSet(Increment(obj, t), termSet \ {t})

(***************************************************************************)
(* Arrays and the outcome of a call.                                       *)
(***************************************************************************)
Array(a) == [k |-> "array", a |-> a]
NullArray == [k |-> "null", a |-> <<>>]

Return(v) == [k |-> "return", v |-> v]
\* a TypeError raised by reading a property of null
Throw == [k |-> "throw", v |-> <<>>]

SeqToSet(q) == {q[i] : i \in DOMAIN q}

\* { ...doc, name: val }
Spread(doc, name, val) ==
    [f \in DOMAIN doc \cup {name} |-> IF f = name THEN val ELSE doc[f]]

(***************************************************************************)
(* calculateTFIDF                                                          *)
(***************************************************************************)
\* the first forEach : document frequency of every term
RECURSIVE DocFreq(_, _)
DocFreq(termDocFreq, docs) ==
    IF docs = <<>> THEN termDocFreq
    ELSE LET uniqueTerms == SeqToSet(tokenize(OrEmpty(Head(docs).content)))
         IN  DocFreq(CountSet(termDocFreq, uniqueTerms), Tail(docs))

\* the body of documents.map : the weight vector of one document
Weights(doc, docCount, termDocFreq) ==
    LET terms == tokenize(OrEmpty(doc.content))
        termFreq == CountTerms(EmptyObject, terms)
        length == MaxOne(Num(Len(terms) * Scale))
    IN  [term \in DOMAIN termFreq |->
            LET tf == Div(termFreq[term], length)
                idf == mathLog(Div(docCount, OrOne(Get(termDocFreq, term))))
            IN  Mul(tf, idf)]

calculateTFIDF(documents) ==
    IF documents.k = "null" THEN Throw
    ELSE LET docs == documents.a
             docCount == OrOne(Num(Len(docs) * Scale))
             termDocFreq == DocFreq(EmptyObject, docs)
         IN  Return([i \in 1..Len(docs) |->
                        Spread(docs[i], "tfidf", Weights(docs[i], docCount, termDocFreq))])

(***************************************************************************)
(* RetrievalEngine                                                         *)
(***************************************************************************)
\* a constructor that passes an absent collection on as it is
RetrievalEngineNoDefault(documents) == calculateTFIDF(documents)

\* constructor(documents) : this.documents = calculateTFIDF(documents || [])
RetrievalEngine(documents) ==
    calculateTFIDF(IF documents.k = "null" THEN Array(<<>>) ELSE documents)

\* the sum of f over the terms of a set
RECURSIVE SumOver(_, _)
SumOver(terms, f) ==
    IF terms = {} THEN 0
    ELSE LET t == CHOOSE x \in terms : TRUE
         IN  f[t] + SumOver(terms \ {t}, f)

\* The three accumulators and denom hold products of two Numbers and are kept
\* unrounded, in units of 1/Scale^2.
cosineSimilarity(vec1, vec2) ==
    LET terms == DOMAIN vec1 \cup DOMAIN vec2
        v1 == [term \in terms |-> OrZero(Get(vec1, term))]
        v2 == [term \in terms |-> OrZero(Get(vec2, term))]
    IN  IF \E term \in terms : ~IsNum(v1[term]) \/ ~IsNum(v2[term])
        THEN NaN
        ELSE LET dotProduct == SumOver(terms, [term \in terms |-> v1[term].n * v2[term].n])
                 mag1 == SumOver(terms, [term \in terms |-> v1[term].n * v1[term].n])
                 mag2 == SumOver(terms, [term \in terms |-> v2[term].n * v2[term].n])
                 denom == mathSqrt(mag1) * mathSqrt(mag2)
             IN  IF denom = 0 THEN Num(0) ELSE Num(DivWide(dotProduct, denom))

\* a filter that keeps the documents of score 0 too
NonNegative(d) == IsNum(d.score) /\ d.score.n >= 0

\* d.score > 0
Positive(d) == IsNum(d.score) /\ d.score.n > 0

\* a comparison that also moves b in front of an a of equal score
BeforeOrEqual(b, a) == b.score.n - a.score.n >= 0

\* b.score - a.score > 0 : the comparator puts b before a
Before(b, a) == b.score.n - a.score.n > 0

\* Array.prototype.sort with the comparator of retrieve.  The sort is stable:
\* an element is moved only in front of elements the comparator puts it before.
RECURSIVE InsertSorted(_, _)
InsertSorted(sorted, d) ==
    IF sorted = <<>> THEN <<d>>
    ELSE IF Before(d, sorted[Len(sorted)])
         THEN Append(InsertSorted(SubSeq(sorted, 1, Len(sorted) - 1), d),
                     sorted[Len(sorted)])
         ELSE Append(sorted, d)

RECURSIVE SortFrom(_, _)
SortFrom(sorted, rest) ==
    IF rest = <<>> THEN sorted
    ELSE SortFrom(InsertSorted(sorted, Head(rest)), Tail(rest))

\* a chain that leaves the sort out
sortSkipped(a) == a

sort(a) == SortFrom(<<>>, a)

\* a slice that is one element too long
sliceInclusive(a, topK) == SubSeq(a, 1, IF topK + 1 < Len(a) THEN topK + 1 ELSE Len(a))

\* .slice(0, topK)
slice(a, topK) == SubSeq(a, 1, IF topK < Len(a) THEN topK ELSE Len(a))

\* queryTerms.forEach(...) : raw term counts
QueryVec(queryTerms) == CountTerms(EmptyObject, queryTerms)

\* a map that hands back the normalized content in place of the original
ScoredNormalized(docs, queryVec) ==
    [i \in 1..Len(docs) |->
        Spread(Spread(docs[i], "score", cosineSimilarity(queryVec, docs[i].tfidf)),
               "content", Str(preprocessText(OrEmpty(docs[i].content).s)))]

\* .map((doc) => ({ ...doc, score: this.cosineSimilarity(queryVec, doc.tfidf || {}) }))
Scored(docs, queryVec) ==
    [i \in 1..Len(docs) |->
        Spread(docs[i], "score", cosineSimilarity(queryVec, docs[i].tfidf))]

\* a retrieve that trims the query without testing that there is one
retrieveUnguarded(docs, query, topK) ==
    IF query.k = "null" THEN Throw
    ELSE IF trim(query.s) = <<>> THEN Return(<<>>)
    ELSE LET queryTerms == tokenize(query)
         IN  IF Len(queryTerms) = 0 THEN Return(<<>>)
             ELSE Return(slice(sort(SelectSeq(Scored(docs, QueryVec(queryTerms)),
                                              Positive)), topK))

retrieve(docs, query, topK) ==
    IF query.k = "null" \/ query.s = <<>> THEN Return(<<>>)
    ELSE IF trim(query.s) = <<>> THEN Return(<<>>)
    ELSE LET queryTerms == tokenize(query)
         IN  IF Len(queryTerms) = 0 THEN Return(<<>>)
             ELSE Return(slice(sort(SelectSeq(Scored(docs, QueryVec(queryTerms)),
                                              Positive)), topK))

(***************************************************************************)
(* The document store (RAGChatbotSystem, DocumentManager) and the calls    *)
(* made on a RetrievalEngine.                                              *)
(***************************************************************************)
VARIABLES
    documents,   \* the document store : the array held in React state
    now,         \* Date.now()
    engine,      \* outcome of new RetrievalEngine(...), its v is this.documents
    built,       \* the argument the live engine was constructed from
    result,      \* outcome of the latest retrieve call, with its arguments
    tokIn,       \* a text being typed, piece by piece
    tokOut,      \* tokenize(tokIn) once it has been computed
    messages,    \* the chat transcript : the array held in React state
    isProcessing,\* the flag held in React state
    calls,       \* the handleSendMessage calls suspended at an await
    sends,       \* how many handleSendMessage calls got past the query guard
    requests     \* the POST /api/chat requests the server has received

chatVars == <<messages, isProcessing, calls, sends>>
serverVars == <<requests>>
vars == <<documents, now, engine, built, result, tokIn, tokOut, chatVars, serverVars>>

None == [k |-> "none", v |-> <<>>]
NoResult == [k |-> "none", v |-> <<>>, query |-> Null, topK |-> 0]

\* the last reading of the clock that a document is added at; readings are
\* abstracted to 2, 3, ... and a document's timestamp to the reading itself
MaxClock == MaxDocs + 1

Titles == {"notes.txt"}
FormContents == {Str(TxtSubset), Str(TxtCats), Str(TxtDeep)}
UploadContents == {Str(TxtCtor)}
Queries ==
    {Null, Str(<<>>), Str(QryBlank), Str(QryShort), Str(QryML), Str(QryAll), Str(QryLearn)}
TopKs == {1, MaxTopK - 1, MaxTopK}
\* the pieces a typed text is made of
Pieces == {<<"a">>, <<" ">>, <<".">>, <<"B", "b">>, <<"_", "9">>, <<"\t", "\n">>}

DefaultDocuments ==
    << [id |-> 1, title |-> "Introduction to Machine Learning",
        content |-> Str(TxtDefault), timestamp |-> 1] >>

\* a store read back from localStorage : emptied in an earlier session, or
\* holding an uploaded empty file and a typed document
SavedDocuments ==
    { <<>>,
      << [id |-> 0, title |-> "empty.txt", content |-> Str(<<>>), timestamp |-> 0],
         [id |-> 1, title |-> "saved", content |-> Str(TxtLearn), timestamp |-> 1] >> }

Init ==
    /\ documents \in {DefaultDocuments} \cup SavedDocuments
    /\ now = 2
    /\ engine = None
    /\ built = NullArray
    /\ result = NoResult
    /\ tokIn = Null
    /\ tokOut = None
    /\ messages = <<>>
    /\ isProcessing = FALSE
    /\ calls = <<>>
    /\ sends = 0
    /\ requests = <<>>

\* title.trim() of a title, which the model keeps as an opaque string
BlankTitle(title) == title = ""

\* DocumentManager.handleAddDocument, then RAGChatbotSystem.handleAddDocument
AddDocument(title, content) ==
    /\ engine = None
    /\ Len(documents) < MaxDocs
    /\ now <= MaxClock
    /\ ~BlankTitle(title)
    /\ content.k = "string" /\ trim(content.s) # <<>>
    /\ documents' = Append(documents,
                           [id |-> now, title |-> title, content |-> content,
                            timestamp |-> now])
    /\ now' = now + 1
    /\ UNCHANGED <<engine, built, result, tokIn, tokOut, chatVars, serverVars>>

\* DocumentManager.handleFileUpload, then RAGChatbotSystem.handleAddDocument
FileUpload(name, content) ==
    /\ engine = None
    /\ Len(documents) < MaxDocs
    /\ now <= MaxClock
    /\ documents' = Append(documents,
                           [id |-> now, title |-> name, content |-> content,
                            timestamp |-> now])
    /\ now' = now + 1
    /\ UNCHANGED <<engine, built, result, tokIn, tokOut, chatVars, serverVars>>

\* RAGChatbotSystem.handleDeleteDocument
DeleteDocument(id) ==
    /\ engine = None
    /\ documents' = SelectSeq(documents, LAMBDA doc : doc.id # id)
    /\ UNCHANGED <<now, engine, built, result, tokIn, tokOut, chatVars, serverVars>>

\* new RetrievalEngine(arg), on the store or on an absent collection
Construct(arg) ==
    /\ engine = None
    /\ engine' = RetrievalEngine(arg)
    /\ built' = arg
    /\ result' = NoResult
    /\ UNCHANGED <<documents, now, tokIn, tokOut, chatVars, serverVars>>

\* retriever.retrieve(query, topK)
Retrieve(query, topK) ==
    /\ engine.k = "return"
    /\ result.k = "none"
    /\ result' = LET out == retrieve(engine.v, query, topK)
                  IN  [k |-> out.k, v |-> out.v, query |-> query, topK |-> topK]
    /\ UNCHANGED <<documents, now, engine, built, tokIn, tokOut, chatVars, serverVars>>

\* the caller drops the returned array; the engine can be queried again
DropResult ==
    /\ result.k # "none"
    /\ result' = NoResult
    /\ UNCHANGED <<documents, now, engine, built, tokIn, tokOut, chatVars, serverVars>>

\* the engine goes out of scope
Discard ==
    /\ engine # None
    /\ engine' = None
    /\ built' = NullArray
    /\ result' = NoResult
    /\ UNCHANGED <<documents, now, tokIn, tokOut, chatVars, serverVars>>

\* typing one more piece of the text
TypePiece(piece) ==
    /\ Len(tokIn.s) + Len(piece) <= MaxTextLen
    /\ tokIn.k = "null" \/ tokOut = None
    /\ tokIn' = Str(tokIn.s \o piece)
    /\ tokOut' = None
    /\ UNCHANGED <<documents, now, engine, built, result, chatVars, serverVars>>

\* tokenize(text) on the typed text, or on an absent one
Tokenize ==
    /\ tokOut = None
    /\ tokOut' = Return(tokenize(tokIn))
    /\ UNCHANGED <<documents, now, engine, built, result, tokIn, chatVars, serverVars>>

\* the field is cleared : setInput("")
ClearText ==
    /\ tokOut # None
    /\ tokIn' = Str(<<>>)
    /\ tokOut' = None
    /\ UNCHANGED <<documents, now, engine, built, result, chatVars, serverVars>>

Next ==
    \/ \E title \in Titles, content \in FormContents : AddDocument(title, content)
    \/ \E name \in Titles, content \in UploadContents : FileUpload(name, content)
    \/ \E i \in DOMAIN documents : DeleteDocument(documents[i].id)
    \/ \E arg \in {Array(documents), NullArray} : Construct(arg)
    \/ \E query \in Queries, topK \in TopKs : Retrieve(query, topK)
    \/ DropResult
    \/ Discard

Spec == Init /\ [][Next]_vars

\* the normalizer on its own, over every text of at most MaxTextLen characters
InitTok ==
    /\ Init
    /\ documents = DefaultDocuments

NextTok ==
    \/ \E piece \in Pieces : TypePiece(piece)
    \/ Tokenize
    \/ ClearText

SpecTok == InitTok /\ [][NextTok]_vars

(***************************************************************************)
(* The backend : POST /api/chat of server.js.                              *)
(*                                                                         *)
(* A request is a record of the parsed body, the position of its handler,  *)
(* the responses written to res, the number of generateContent calls made  *)
(* for it, the value its catch clause received and the text the model      *)
(* returned.  Several handlers can be suspended at an await at once.       *)
(***************************************************************************)
MODEL_NAME == "gemini-2.5-flash"

\* an Error object with its message
Error(message) == [k |-> "error", message |-> message]
TypeError == Error("Cannot read properties of undefined")

\* a parsed JSON body { messages: ... }
Body(msgs) == [k |-> "object", messages |-> msgs]
UserMessage == [k |-> "object", role |-> "user", content |-> Str(<<"h", "i">>)]

\* the bodies express.json() hands to the handler : none, no messages
\* property, null, an empty list, a list of one message, a list whose last
\* element is null
ChatBodies ==
    {Undefined, Body(Undefined), Body(Null), Body(Array(<<>>)),
     Body(Array(<<UserMessage>>)), Body(Array(<<Null>>))}

\* what generateContent settles with, and what response.text() does
Resolved == [k |-> "resolved"]
Rejected(error) == [k |-> "rejected", v |-> error]
Thrown(error) == [k |-> "throw", v |-> error]
GenerateOutcomes == {Resolved, Rejected(Error("fetch failed"))}
TextOutcomes ==
    {Return("grounded answer"), Return(""), Thrown(Error("response was blocked"))}

\* a guard that tests only for an absent list
NoMessagesAbsentOnly(msgs) == msgs.k \in {"undefined", "null"}

\* !messages || messages.length === 0
NoMessages(msgs) ==
    \/ msgs.k \in {"undefined", "null"}
    \/ msgs.k = "array" /\ Len(msgs.a) = 0

\* messages[messages.length - 1]
Last(msgs) == IF Len(msgs.a) = 0 THEN Undefined ELSE msgs.a[Len(msgs.a)]

NoResponse == [k |-> "none"]
NewRequest(body) ==
    [body |-> body, pc |-> "received", responses |-> <<>>, modelCalls |-> 0,
     caught |-> NoResponse, text |-> NoResponse]

\* res.status(400).json({ success: false, error: "No messages provided" })
Respond400(req) ==
    [req EXCEPT !.pc = "done",
                !.responses = Append(@, [status |-> 400, success |-> FALSE,
                                         error |-> "No messages provided"])]

\* the catch clause : error.message is read, then
\* res.status(500).json({ success: false, error: ..., details: error.message });
\* reading a property of a thrown null or undefined rejects the promise of
\* the handler, which nothing handles
Catch(req, error) ==
    IF error.k \in {"null", "undefined"}
    THEN [req EXCEPT !.pc = "unhandled", !.caught = error]
    ELSE [req EXCEPT !.pc = "done", !.caught = error,
                     !.responses = Append(@, [status |-> 500, success |-> FALSE,
                                              error |-> "Gemini Request Failed",
                                              details |-> error.message])]

\* res.json({ success: true, model: MODEL_NAME, content: text })
Respond200(req, text) ==
    [req EXCEPT !.pc = "done", !.text = Return(text),
                !.responses = Append(@, [status |-> 200, success |-> TRUE,
                                         model |-> MODEL_NAME, content |-> text])]

\* the handler from its entry to the first await
Entry(req) ==
    IF req.body.k = "undefined" THEN Catch(req, TypeError)
    ELSE IF NoMessages(req.body.messages) THEN Respond400(req)
    ELSE IF Last(req.body.messages).k \in {"undefined", "null"}
         THEN Catch(req, TypeError)
    ELSE [req EXCEPT !.pc = "generateContent", !.modelCalls = @ + 1]

\* a POST /api/chat request arrives and its handler runs to its first await
\* or to its end
Post(body) ==
    /\ Len(requests) < MaxRequests
    /\ requests' = Append(requests, Entry(NewRequest(body)))
    /\ UNCHANGED <<documents, now, engine, built, result, tokIn, tokOut, chatVars>>

\* await generativeModel.generateContent(prompt) settles
GenerateContentSettles(i, outcome) ==
    /\ requests[i].pc = "generateContent"
    /\ requests' = [requests EXCEPT ![i] =
                       IF outcome.k = "rejected" THEN Catch(@, outcome.v)
                       ELSE [@ EXCEPT !.pc = "response"]]
    /\ UNCHANGED <<documents, now, engine, built, result, tokIn, tokOut, chatVars>>

\* await result.response resumes; response.text() returns or throws
ResponseSettles(i, outcome) ==
    /\ requests[i].pc = "response"
    /\ requests' = [requests EXCEPT ![i] =
                       IF outcome.k = "throw" THEN Catch(@, outcome.v)
                       ELSE Respond200(@, outcome.v)]
    /\ UNCHANGED <<documents, now, engine, built, result, tokIn, tokOut, chatVars>>

NextServer ==
    \/ \E body \in ChatBodies : Post(body)
    \/ \E i \in DOMAIN requests, outcome \in GenerateOutcomes :
           GenerateContentSettles(i, outcome)
    \/ \E i \in DOMAIN requests, outcome \in TextOutcomes : ResponseSettles(i, outcome)

\* the server runs on its own : the store of the browser stays as it starts
InitServer ==
    /\ Init
    /\ documents = DefaultDocuments

SpecServer == InitServer /\ [][NextServer]_vars

(***************************************************************************)
(* The chat : ChatInterface.handleSend and RAGChatbotSystem's              *)
(* handleSendMessage.                                                      *)
(*                                                                         *)
(* handleSendMessage runs from its entry to its first await inside the     *)
(* event that called it; each later step runs when the promise it awaits   *)
(* settles.  A suspended call is a record of the await it is at and the    *)
(* documents it retrieved.                                                 *)
(***************************************************************************)
\* the texts of the input field when the user presses Enter or the button
ChatInputs == {Str(<<>>), Str(QryBlank), Str(QryML)}
\* the content of a document added while chatting
ChatContents == {Str(TxtCats)}

\* { role: "user", content: query }
UserSays(query) == [role |-> "user", content |-> query]

\* the assistant messages of handleSendMessage
NoDocumentsMessage ==
    [role |-> "assistant", status |-> "error", statusMessage |-> "No documents available"]
NoRelevantMessage ==
    [role |-> "assistant", status |-> "warning",
     statusMessage |-> "No relevant documents found"]
SuccessMessage(content, retrievedDocs) ==
    [role |-> "assistant", status |-> "success", content |-> content,
     retrievedDocs |-> retrievedDocs, statusMessage |-> Len(retrievedDocs)]
ErrorMessage(error) ==
    [role |-> "assistant", status |-> "error", statusMessage |-> error.message]

\* what fetch settles with : a rejection, or a response with its ok flag
FetchOutcomes ==
    {Rejected(Error("Failed to fetch")),
     [k |-> "response", ok |-> TRUE, status |-> 200],
     [k |-> "response", ok |-> FALSE, status |-> 400],
     [k |-> "response", ok |-> FALSE, status |-> 500]}

\* what response.text() settles with
BodyTextOutcomes == {Resolved, Rejected(Error("body stream already read"))}

\* what response.json() settles with : the bodies the server writes, a
\* success without content, null, or a rejection for a body that is not JSON
JsonOutcomes ==
    {[k |-> "object", success |-> TRUE, content |-> "grounded answer"],
     [k |-> "object", success |-> TRUE, content |-> ""],
     [k |-> "object", success |-> FALSE, content |-> ""],
     [k |-> "null", success |-> FALSE, content |-> ""],
     Rejected(Error("Unexpected token < in JSON"))}

\* a handleSend that looks at the input only
IgnoredWhenBlank(input, processing) == trim(input.s) = <<>>

\* handleSend : if (!input.trim() || isProcessing) return;
Ignored(input, processing) == trim(input.s) = <<>> \/ processing

\* a finally clause that leaves the flag as it is
FinallySkipped(processing) == processing

\* finally { setIsProcessing(false); }
Finally(processing) == FALSE

\* calls without the i-th one
Without(i) == [j \in 1..(Len(calls) - 1) |-> IF j < i THEN calls[j] ELSE calls[j + 1]]

\* the call suspended at calls[i] ends by appending one assistant message
\* and running its finally clause
Finish(i, message) ==
    /\ messages' = Append(messages, message)
    /\ isProcessing' = Finally(isProcessing)
    /\ calls' = Without(i)
    /\ UNCHANGED <<documents, now, engine, built, result, tokIn, tokOut, sends, serverVars>>

\* handleSendMessage(query), from its entry to await fetch(...) or to its end
HandleSendMessage(query) ==
    /\ ~(Falsy(query) \/ trim(query.s) = <<>>)
    /\ sends < MaxSends
    /\ sends' = sends + 1
    /\ IF Len(documents) = 0
       THEN /\ messages' = messages \o <<UserSays(query), NoDocumentsMessage>>
            /\ UNCHANGED <<isProcessing, calls>>
       ELSE \E retrievedDocs \in {retrieve(RetrievalEngine(Array(documents)).v, query, 3)} :
                IF retrievedDocs.k = "throw"
                THEN /\ messages' = messages \o <<UserSays(query), ErrorMessage(TypeError)>>
                     /\ isProcessing' = Finally(TRUE)
                     /\ UNCHANGED calls
                ELSE IF Len(retrievedDocs.v) = 0
                THEN /\ messages' = messages \o <<UserSays(query), NoRelevantMessage>>
                     /\ isProcessing' = Finally(FALSE)
                     /\ UNCHANGED calls
                ELSE /\ messages' = Append(messages, UserSays(query))
                     /\ isProcessing' = TRUE
                     /\ calls' = Append(calls,
                                        [pc |-> "fetch",
                                         retrievedDocs |->
                                             [r \in DOMAIN retrievedDocs.v |->
                                                 retrievedDocs.v[r].id]])
    /\ UNCHANGED <<documents, now, engine, built, result, tokIn, tokOut, serverVars>>

\* ChatInterface.handleSend on Enter or on the button
HandleSend(input) ==
    /\ ~Ignored(input, isProcessing)
    /\ HandleSendMessage(input)

\* await fetch(BACKEND_URL, ...) settles
FetchSettles(i, outcome) ==
    /\ calls[i].pc = "fetch"
    /\ IF outcome.k = "rejected" THEN Finish(i, ErrorMessage(outcome.v))
       ELSE /\ calls' = [calls EXCEPT ![i].pc = IF outcome.ok THEN "json" ELSE "text"]
            /\ UNCHANGED <<documents, now, engine, built, result, tokIn, tokOut,
                           messages, isProcessing, sends, serverVars>>

\* await response.text() settles, and the server error is thrown
BodyTextSettles(i, outcome) ==
    /\ calls[i].pc = "text"
    /\ Finish(i, ErrorMessage(IF outcome.k = "rejected" THEN outcome.v
                              ELSE Error("Server error")))

\* await response.json() settles
JsonSettles(i, data) ==
    /\ calls[i].pc = "json"
    /\ IF data.k = "rejected" THEN Finish(i, ErrorMessage(data.v))
       ELSE IF data.k = "null" THEN Finish(i, ErrorMessage(TypeError))
       ELSE IF data.success /\ data.content # ""
       THEN Finish(i, SuccessMessage(data.content, calls[i].retrievedDocs))
       ELSE Finish(i, ErrorMessage(Error("Invalid response format from server")))

\* a promise of the backend request settles
BackendSettles ==
    \/ \E i \in DOMAIN calls, outcome \in FetchOutcomes : FetchSettles(i, outcome)
    \/ \E i \in DOMAIN calls, outcome \in BodyTextOutcomes : BodyTextSettles(i, outcome)
    \/ \E i \in DOMAIN calls, data \in JsonOutcomes : JsonSettles(i, data)

NextChat ==
    \/ \E input \in ChatInputs : HandleSend(input)
    \/ \E title \in Titles, content \in ChatContents : AddDocument(title, content)
    \/ \E i \in DOMAIN documents : DeleteDocument(documents[i].id)
    \/ BackendSettles

\* the chat opens on the default store or on one read back from localStorage
InitChat == Init

SpecChat == InitChat /\ [][NextChat]_vars

\* the same, with every backend request settling at last
SpecChatLive == InitChat /\ [][NextChat]_vars /\ WF_vars(BackendSettles)

(***************************************************************************)
(* Properties of the normalizer.                                           *)
(***************************************************************************)
\* The maximal runs of word characters of a text, as pairs <<first, last>>.
WordRuns(s) ==
    {r \in (1..Len(s)) \X (1..Len(s)) :
        /\ r[1] <= r[2]
        /\ \A i \in r[1]..r[2] : IsWordChar(s[i])
        /\ r[1] = 1 \/ ~IsWordChar(s[r[1] - 1])
        /\ r[2] = Len(s) \/ ~IsWordChar(s[r[2] + 1])}

\* The tokens the normalizer is specified to return: the runs longer than 2
\* characters, lowercased, from left to right.
ExpectedTokens(text) ==
    IF text.k = "null" THEN <<>>
    ELSE LET long == {r \in WordRuns(text.s) : r[2] - r[1] + 1 > 2}
             Nth(n) == CHOOSE r \in long :
                           Cardinality({q \in long : q[1] <= r[1]}) = n
         IN  [n \in 1..Cardinality(long) |->
                 [i \in 1..(Nth(n)[2] - Nth(n)[1] + 1) |->
                     LowerChar(text.s[Nth(n)[1] + i - 1])]]

\* C10: tokenize returns exactly the whitespace-separated tokens of the
\* lowercased text with punctuation turned into separators that are longer
\* than 2 characters, in their original order and with duplicates kept; no
\* returned token has length 2 or less, and empty or absent text yields the
\* empty sequence.
C10_TokenizeExact ==
    tokOut.k = "return" =>
        /\ tokOut.v = ExpectedTokens(tokIn)
        /\ \A i \in DOMAIN tokOut.v : Len(tokOut.v[i]) > 2
        /\ Falsy(tokIn) => tokOut.v = <<>>

\* a text with punctuation, an upper-case letter and a short token, whose
\* tokens include the same term twice
C10_Witness ==
    /\ tokOut.k = "return"
    /\ Len(tokOut.v) = 2
    /\ tokOut.v[1] = tokOut.v[2]
    /\ \E i \in DOMAIN tokIn.s : tokIn.s[i] = "B"
    /\ \E i \in DOMAIN tokIn.s : tokIn.s[i] = "."

(***************************************************************************)
(* Properties of the retrieval engine.                                     *)
(***************************************************************************)
\* the terms of the query of the latest call and the score the engine gives a
\* document of the index for it
QueryTerms == tokenize(result.query)
Scores ==
    LET queryVec == QueryVec(QueryTerms)
        all == [d \in DOMAIN engine.v |-> cosineSimilarity(queryVec, engine.v[d].tfidf)]
    IN  SubSeq(all, 1, Len(all))
ResultIds == {result.v[i].id : i \in DOMAIN result.v}
Occurrences(terms, t) == Cardinality({i \in DOMAIN terms : terms[i] = t})
Min(a, b) == IF a < b THEN a ELSE b

\* a retrieve call has returned from an engine built on a collection
Retrieved == result.k = "return" /\ engine.k = "return" /\ built.k = "array"

\* C1: for a non-empty collection and a query with at least one term, if a
\* document's normalized content shares a term with the normalized query,
\* retrieve returns a non-empty result whose first score is in (0, 1].
C1_TopScoreInRange ==
    ( /\ Retrieved
      /\ built.a # <<>>
      /\ QueryTerms # <<>>
      /\ \E i \in DOMAIN built.a :
            SeqToSet(tokenize(OrEmpty(built.a[i].content))) \cap SeqToSet(QueryTerms) # {} )
    => /\ result.v # <<>>
       /\ IsNum(result.v[1].score)
       /\ result.v[1].score.n > 0
       /\ result.v[1].score.n <= Scale

\* C2: for a collection of a single document whose content is the query's
\* terms repeated, retrieve with that query returns that document with cosine
\* similarity 1.0.
C2_SingleDocumentExactMatch ==
    ( /\ Retrieved
      /\ Len(built.a) = 1
      /\ QueryTerms # <<>>
      /\ LET terms == tokenize(OrEmpty(built.a[1].content))
         IN  \E m \in 1..Len(terms) :
                \A t \in SeqToSet(terms) \cup SeqToSet(QueryTerms) :
                    Occurrences(terms, t) = m * Occurrences(QueryTerms, t) )
    => /\ Len(result.v) = 1
       /\ result.v[1].id = built.a[1].id
       /\ result.v[1].score = Num(Scale)

\* the three documents and the query of the scenario, with topK = 3
C3_Scenario ==
    /\ Retrieved
    /\ Len(built.a) = 3
    /\ built.a[1].content = Str(TxtSubset)
    /\ built.a[2].content = Str(TxtCats)
    /\ built.a[3].content = Str(TxtDeep)
    /\ result.query = Str(QryML)
    /\ result.topK = 3

\* C3 as stated: the scenario returns exactly 2 results, documents 1 and 3.
C3_ReturnsDocuments1And3 ==
    C3_Scenario => /\ Len(result.v) = 2
                   /\ ResultIds = {built.a[1].id, built.a[3].id}

\* C3 as amended: the scenario returns exactly 1 result, document 3; documents
\* 1 and 2 share no term with the query and are excluded.
C3_ReturnsDocument3Only ==
    C3_Scenario => /\ Len(result.v) = 1
                   /\ result.v[1].id = built.a[3].id
                   /\ result.v[1].score.n > 0

C3_Witness == C3_Scenario /\ result.v # <<>>

\* C4: the returned sequence is in non-increasing score order, and no document
\* of the collection that is left out has a strictly higher score than a
\* document of the result.
C4_SortedTopK ==
    Retrieved =>
        \A score \in {Scores} :
            /\ \A i, j \in DOMAIN result.v :
                  i < j => result.v[i].score.n >= result.v[j].score.n
            /\ \A d \in DOMAIN engine.v :
                  engine.v[d].id \notin ResultIds =>
                     \A i \in DOMAIN result.v :
                        ~(IsNum(score[d]) /\ score[d].n > result.v[i].score.n)

\* two results of different score, and a document of positive score cut off
C4_Witness ==
    /\ Retrieved
    /\ Len(result.v) >= 2
    /\ result.v[1].score.n > result.v[2].score.n
    /\ \E d \in DOMAIN engine.v :
          /\ engine.v[d].id \notin ResultIds
          /\ IsNum(Scores[d]) /\ Scores[d].n > 0

\* C5: retrieve(query, k) returns exactly min(k, number of documents of
\* strictly positive score) results; with k = 1 the one returned is a
\* document of the highest score.
C5_LengthIsMin ==
    Retrieved =>
        \A score \in {Scores} :
            LET positive == {d \in DOMAIN engine.v : IsNum(score[d]) /\ score[d].n > 0}
            IN  /\ Len(result.v) = Min(result.topK, Cardinality(positive))
                /\ \A i \in DOMAIN result.v : result.v[i].score.n > 0
                /\ (result.topK = 1 /\ positive # {}) =>
                      \A d \in positive : score[d].n <= result.v[1].score.n

\* k = 1 with three matching documents of distinct positive scores
C5_Witness ==
    /\ Retrieved
    /\ result.topK = 1
    /\ Len(result.v) = 1
    /\ Len(engine.v) = 3
    /\ \A d \in DOMAIN engine.v : IsNum(Scores[d]) /\ Scores[d].n > 0
    /\ \A d, e \in DOMAIN engine.v : d # e => Scores[d].n # Scores[e].n

\* C6: on an index built from an empty or absent collection the construction
\* and every retrieve succeed, and every retrieve returns the empty sequence.
C6_EmptyCollection ==
    (engine # None /\ (built.k = "null" \/ built.a = <<>>)) =>
        /\ engine = Return(<<>>)
        /\ result.k # "none" => (result.k = "return" /\ result.v = <<>>)

\* a query with terms, answered from an engine built on an absent collection
C6_Witness ==
    /\ built.k = "null"
    /\ result.k = "return"
    /\ QueryTerms # <<>>

\* the query of the latest call is empty, absent, whitespace only, or
\* normalizes to zero terms
NoQueryTerms ==
    \/ Falsy(result.query)
    \/ trim(result.query.s) = <<>>
    \/ QueryTerms = <<>>

\* C7: retrieve returns the empty sequence, and raises no error, whenever the
\* query is empty, absent, whitespace only or normalizes to zero terms.
C7_EmptyQuery ==
    (result.k # "none" /\ NoQueryTerms) => (result.k = "return" /\ result.v = <<>>)

\* a query of short tokens only, on a collection that holds documents
C7_Witness ==
    /\ result.k = "return"
    /\ result.query = Str(QryShort)
    /\ Len(engine.v) = MaxDocs

\* position of the document of a result in the collection the engine was
\* built from
PositionOf(r) == CHOOSE i \in DOMAIN built.a : built.a[i].id = r.id

\* C8: two returned documents of equal score appear in the order they have in
\* the collection passed to the engine.
C8_StableTies ==
    Retrieved =>
        \A i, j \in DOMAIN result.v :
            (i < j /\ result.v[i].score = result.v[j].score) =>
                PositionOf(result.v[i]) < PositionOf(result.v[j])

C8_Witness ==
    /\ Retrieved
    /\ \E i, j \in DOMAIN result.v : i < j /\ result.v[i].score = result.v[j].score

\* every result is its source document of the store with `added` as the only
\* new fields
ResultsCarry(added) ==
    \A i \in DOMAIN result.v :
        \E d \in DOMAIN documents :
            /\ documents[d].id = result.v[i].id
            /\ DOMAIN result.v[i] = DOMAIN documents[d] \cup added
            /\ \A f \in DOMAIN documents[d] : result.v[i][f] = documents[d][f]

TermsOf(doc) == SeqToSet(tokenize(OrEmpty(doc.content)))

\* the number of documents of a collection that hold a term
Holders(docs, term) == Cardinality({i \in DOMAIN docs : term \in TermsOf(docs[i])})

\* C11: for every document of every built index, the key set of its weight
\* vector is exactly the set of distinct terms of its normalized content (a
\* document with empty or absent content gets an empty vector), and every
\* stored weight is a non-negative number.
C11_WeightKeysAndSigns ==
    engine.k = "return" =>
        \A i \in DOMAIN engine.v :
            /\ DOMAIN engine.v[i].tfidf = TermsOf(engine.v[i])
            /\ \A term \in DOMAIN engine.v[i].tfidf :
                   /\ IsNum(engine.v[i].tfidf[term])
                   /\ engine.v[i].tfidf[term].n >= 0

\* C13: during build, each document contributes at most 1 to the document
\* frequency of a term, and for every term t of any document's weight
\* computation df(t) is a number with 1 <= df(t) <= N, so the fallback for a
\* zero document frequency is never taken and idf(t) = ln(N / df(t)) is a
\* number that is never negative.
C13_DocumentFrequencyInRange ==
    (engine.k = "return" /\ built.k = "array") =>
        LET docs == built.a
            docCount == OrOne(Num(Len(docs) * Scale))
            termDocFreq == DocFreq(EmptyObject, docs)
        IN  \A i \in DOMAIN docs :
                \A term \in DOMAIN CountTerms(EmptyObject, tokenize(OrEmpty(docs[i].content))) :
                    LET df == Get(termDocFreq, term)
                        idf == mathLog(Div(docCount, OrOne(df)))
                    IN  /\ IsNum(df)
                        /\ df.n = Holders(docs, term) * Scale
                        /\ Scale <= df.n /\ df.n <= Len(docs) * Scale
                        /\ OrOne(df) = df
                        /\ IsNum(idf) /\ idf.n >= 0

\* a document all of whose terms occur in every document of the collection
\* the live engine was built from
Ubiquitous(i) ==
    \A term \in TermsOf(built.a[i]) : Holders(built.a, term) = Len(built.a)

\* C14: a document all of whose terms occur in every document of the
\* collection has an all-zero weight vector and is never returned by
\* retrieve for any query; in particular an index built from a
\* single-document collection returns an empty result for every query.
C14_UbiquitousTermsNeverMatch ==
    (engine.k = "return" /\ built.k = "array") =>
        /\ \A i \in DOMAIN built.a :
               Ubiquitous(i) =>
                   /\ \A term \in DOMAIN engine.v[i].tfidf :
                          engine.v[i].tfidf[term] = Num(0)
                   /\ result.k = "return" =>
                          \A r \in DOMAIN result.v : result.v[r].id # built.a[i].id
        /\ (Len(built.a) = 1 /\ result.k # "none") =>
               (result.k = "return" /\ result.v = <<>>)

\* the part of C14 about retrieve alone: such a document is never returned,
\* and a single-document index answers every query with the empty sequence
C14_NeverReturned ==
    (engine.k = "return" /\ built.k = "array") =>
        /\ \A i \in DOMAIN built.a :
               (Ubiquitous(i) /\ result.k = "return") =>
                   \A r \in DOMAIN result.v : result.v[r].id # built.a[i].id
        /\ (Len(built.a) = 1 /\ result.k # "none") =>
               (result.k = "return" /\ result.v = <<>>)

(***************************************************************************)
(* Properties of the backend.                                              *)
(***************************************************************************)
\* the body of a request carries no messages : the property is absent or
\* null, or the list is empty
CarriesNoMessages(req) ==
    /\ req.body.k = "object"
    /\ \/ req.body.messages.k \in {"undefined", "null"}
       \/ req.body.messages.k = "array" /\ req.body.messages.a = <<>>

\* C12: every POST /api/chat request receives exactly one response and
\* never crashes the server : no handler writes a second response or ends
\* in an unhandled rejection, and a finished handler has written exactly
\* one response, which is 400 with success false and no call of the
\* generative model when the body has no messages or an empty list, 500
\* with success false when a step of the handler threw, and otherwise
\* success true with the generated text.
C12_OneResponsePerRequest ==
    \A i \in DOMAIN requests :
        LET req == requests[i]
        IN  /\ Len(req.responses) <= 1
            /\ req.pc # "unhandled"
            /\ req.pc = "done" =>
                   /\ Len(req.responses) = 1
                   /\ IF CarriesNoMessages(req)
                      THEN /\ req.responses[1].status = 400
                           /\ req.responses[1].success = FALSE
                           /\ req.modelCalls = 0
                      ELSE IF req.caught # NoResponse
                      THEN /\ req.responses[1].status = 500
                           /\ req.responses[1].success = FALSE
                      ELSE /\ req.responses[1].success = TRUE
                           /\ req.text.k = "return"
                           /\ req.responses[1].content = req.text.v

\* one request with an empty list and one whose model call was made and
\* failed have both been answered
C12_Witness ==
    /\ \E i \in DOMAIN requests :
           /\ requests[i].pc = "done"
           /\ requests[i].body = Body(Array(<<>>))
    /\ \E i \in DOMAIN requests :
           /\ requests[i].pc = "done"
           /\ requests[i].modelCalls = 1
           /\ requests[i].caught # NoResponse

(***************************************************************************)
(* Properties of the chat.                                                 *)
(***************************************************************************)
\* the transcript alternates user and assistant messages, a user message first
Alternates ==
    \A i \in DOMAIN messages :
        messages[i].role = IF i % 2 = 1 THEN "user" ELSE "assistant"

\* no handleSendMessage call is suspended
Settled == calls = <<>>

\* C15: every handleSendMessage call with a non-blank query appends exactly
\* one user message, and once its backend request has settled it has
\* appended exactly one assistant message after it and isProcessing is
\* false; a request in flight always settles.
C15_EveryCallAnswered ==
    /\ [](Cardinality({i \in DOMAIN messages : messages[i].role = "user"}) = sends)
    /\ [](Settled =>
            /\ ~isProcessing
            /\ Len(messages) = 2 * sends
            /\ \A n \in 1..sends :
                   /\ messages[2 * n - 1].role = "user"
                   /\ messages[2 * n].role = "assistant")
    /\ (~Settled) ~> Settled

\* two calls have ended, one with the answer of the backend and one after a
\* network failure
C15_Witness ==
    /\ Settled
    /\ Len(messages) = 4
    /\ \E i, j \in {2, 4} :
           /\ messages[i].status = "success"
           /\ messages[j].status = "error"
           /\ messages[j].statusMessage = "Failed to fetch"

\* C16: at most one backend request is outstanding at any time, and only
\* while isProcessing is true; the transcript strictly alternates user and
\* assistant messages starting with a user message, and a trailing user
\* message without an answer is there only while a request is outstanding.
C16_OneRequestAlternating ==
    /\ Len(calls) <= 1
    /\ isProcessing <=> Len(calls) = 1
    /\ Alternates
    /\ Len(messages) % 2 = 1 <=> Len(calls) = 1

\* a request is outstanding, its response has arrived and is being read,
\* after an earlier exchange has ended
C16_Witness ==
    /\ isProcessing
    /\ Len(calls) = 1
    /\ calls[1].pc = "json"
    /\ Len(messages) = 3

====
